---- MODULE Spec2Model ----
(***************************************************************************)
(* Vendor agenda: the ranking function generate_vendor_agenda of the       *)
(* initial schema and the queue controller of components/agenda-view.tsx.  *)
(*                                                                         *)
(* Time is counted in ticks, TicksPerDay ticks to a day, so that a         *)
(* timestamp has a time-of-day part and EXTRACT(DAY FROM now() - t)        *)
(* really truncates.  Dates (due_date, CURRENT_DATE) are whole days.       *)
(***************************************************************************)
EXTENDS Integers, Sequences, FiniteSets, TLC

VARIABLES
    agenda_items,   \* table agenda_items: set of rows
    blockers,       \* table blockers: set of rows
    action_items,   \* table action_items: set of rows
    now,            \* the database clock now(), in ticks
    fetched,        \* last call of generate_vendor_agenda: arguments and result
    items,          \* AgendaView: the React state `items`
    rendered,       \* AgendaView: the `items` of the last committed render
    pending,        \* store writes issued and not yet completed
    awaiting,       \* async handlers suspended on their await
    lastOp,         \* the handler that ran last, and on what
    ops,            \* the number of handler invocations so far
    clipboard,      \* the lines last written to the clipboard
    nextId,         \* the id the store gives the next inserted record
    raid_entries,   \* table raid_entries: set of rows
    confirms        \* handleConfirm of each intake page: where it is

vars == <<agenda_items, blockers, action_items, now, fetched,
          items, rendered, pending, awaiting, lastOp, ops, clipboard, nextId,
          raid_entries, confirms>>

tables == <<agenda_items, blockers, action_items>>
controller == <<items, rendered, pending, awaiting, lastOp, ops, clipboard, nextId>>
intake == <<raid_entries, confirms>>

-----------------------------------------------------------------------------
(* Bounds of the model *)

TicksPerDay == 2     \* clock resolution
MaxLimit == 3        \* largest p_limit tried by the ranking specification
MaxPlain == 2        \* ranking specification: records besides the varied one
MaxOps == 2          \* controller: handler invocations in a session
MaxAccepted == 2     \* intake: accepted decisions of one extraction

-----------------------------------------------------------------------------
(* Values *)

NULL == "null"       \* SQL NULL / JS null of a text or enum column
FirstNewId == 5      \* gen_random_uuid(): ids no stored record has
NULLT == -1          \* SQL NULL of a timestamp, date or id column

\* the RAID types handleConfirm creates entries of, in the order it does
RaidTypes == <<"decision", "issue", "risk">>
Orgs == {"O1", "O2"}
\* the two pages with a handleConfirm: intake/page.tsx, intake/[id]/review/page.tsx
Pages == {"intake", "review"}

\* a page with no intake loaded: handleConfirm returns at once
NoIntake ==
    [org_id |-> "O1", accepted |-> [t \in {"decision", "issue", "risk"} |-> 0],
     step |-> Len(RaidTypes) + 1, counted |-> FALSE, count |-> NULLT]

IntakeIdle == raid_entries = {} /\ confirms = [p \in Pages |-> NoIntake]

PriorityLevel == {"critical", "high", "medium", "low"}
SeverityIndicator == {"critical", "high", "new", "normal"}
Vendors == {"V1", "V2"}

people == [p \in {1} |-> [id |-> 1, full_name |-> "Pat"]]

Min(a, b) == IF a < b THEN a ELSE b

-----------------------------------------------------------------------------
(* generate_vendor_agenda *)

\* (mutant of ExtractDay: a started day counts as a whole one)
ExtractDayRoundedUp(t) == (now - t + TicksPerDay - 1) \div TicksPerDay

\* EXTRACT(DAY FROM now() - t)
ExtractDay(t) == (now - t) \div TicksPerDay

CURRENT_DATE == now \div TicksPerDay

\* (mutant of PriorityBase: two WHEN branches exchanged)
PriorityBaseExchanged(p) ==
    CASE p = "critical" -> 100
      [] p = "high" -> 50
      [] p = "medium" -> 75
      [] p = "low" -> 25

\* CASE priority WHEN 'critical' THEN 100 ... END
PriorityBase(p) ==
    CASE p = "critical" -> 100
      [] p = "high" -> 75
      [] p = "medium" -> 50
      [] p = "low" -> 25

\* CASE ag.severity WHEN 'critical' THEN 50 ... ELSE 0 END
SeverityBonus(s) ==
    CASE s = "critical" -> 50
      [] s = "high" -> 30
      [] s = "new" -> 10
      [] OTHER -> 0

\* LEFT JOIN people p ON p.id = x.owner_id ... p.full_name
OwnerName(owner_id) ==
    IF owner_id \in DOMAIN people THEN people[owner_id].full_name ELSE NULL

\* (mutant of AgendaItemScore: the flat bonus of the blockers branch)
AgendaItemScoreFlat(ag) ==
    PriorityBase(ag.priority)
    + ExtractDay(ag.first_raised_at) * 2
    + ag.escalation_count * 15
    + 30

AgendaItemScore(ag) ==
    PriorityBase(ag.priority)
    + ExtractDay(ag.first_raised_at) * 2
    + ag.escalation_count * 15
    + SeverityBonus(ag.severity)

BlockerSeverity(b) ==
    CASE ExtractDay(b.first_flagged_at) > 21 -> "critical"
      [] ExtractDay(b.first_flagged_at) > 7 -> "high"
      [] OTHER -> "new"

BlockerScore(b) ==
    PriorityBase(b.priority)
    + ExtractDay(b.first_flagged_at) * 2
    + b.escalation_count * 15
    + 30

ActionItemSeverity(ai) ==
    CASE ai.due_date # NULLT /\ ai.due_date < CURRENT_DATE - 7 -> "critical"
      [] ai.due_date # NULLT /\ ai.due_date < CURRENT_DATE -> "high"
      [] OTHER -> "normal"

\* (mutant of ActionItemBonus: LEAST is left out)
ActionItemBonusUncapped(ai) ==
    IF ai.due_date # NULLT /\ ai.due_date < CURRENT_DATE
    THEN (CURRENT_DATE - ai.due_date) * 3
    ELSE 0

ActionItemBonus(ai) ==
    IF ai.due_date # NULLT /\ ai.due_date < CURRENT_DATE
    THEN Min((CURRENT_DATE - ai.due_date) * 3, 60)
    ELSE 0

ActionItemScore(ai) ==
    PriorityBase(ai.priority)
    + ExtractDay(ai.first_flagged_at) * 2
    + ai.escalation_count * 15
    + ActionItemBonus(ai)

AgendaItemRow(ag) ==
    [rank |-> 0, entity_type |-> "agenda_item", entity_id |-> ag.id,
     title |-> ag.title, severity |-> ag.severity,
     context |-> ag.context, ask |-> ag.ask, priority |-> ag.priority,
     age_days |-> ExtractDay(ag.first_raised_at),
     escalation_count |-> ag.escalation_count,
     score |-> AgendaItemScore(ag), owner_name |-> OwnerName(ag.owner_id)]

BlockerRow(b) ==
    [rank |-> 0, entity_type |-> "blocker", entity_id |-> b.id,
     title |-> b.title, severity |-> BlockerSeverity(b),
     context |-> b.description, ask |-> b.impact_description,
     priority |-> b.priority,
     age_days |-> ExtractDay(b.first_flagged_at),
     escalation_count |-> b.escalation_count,
     score |-> BlockerScore(b), owner_name |-> OwnerName(b.owner_id)]

ActionItemRow(ai) ==
    [rank |-> 0, entity_type |-> "action_item", entity_id |-> ai.id,
     title |-> ai.title, severity |-> ActionItemSeverity(ai),
     context |-> ai.description, ask |-> ai.notes,
     priority |-> ai.priority,
     age_days |-> ExtractDay(ai.first_flagged_at),
     escalation_count |-> ai.escalation_count,
     score |-> ActionItemScore(ai), owner_name |-> OwnerName(ai.owner_id)]

\* the three WHERE clauses
AgendaItemSelected(ag, p_vendor_id) ==
    ag.vendor_id = p_vendor_id /\ ag.status # "complete" /\ ag.resolved_at = NULLT

\* (mutant of BlockerSelected: the resolution timestamp is not consulted)
BlockerSelectedByStatus(b, p_vendor_id) ==
    b.vendor_id = p_vendor_id /\ b.status # "complete"

BlockerSelected(b, p_vendor_id) ==
    b.vendor_id = p_vendor_id /\ b.status # "complete" /\ b.resolved_at = NULLT

ActionItemSelected(ai, p_vendor_id) ==
    ai.vendor_id = p_vendor_id /\ ai.status # "complete"

\* WITH scored_items AS (... UNION ALL ... UNION ALL ...)
scored_items(p_vendor_id) ==
    {AgendaItemRow(ag) : ag \in {x \in agenda_items : AgendaItemSelected(x, p_vendor_id)}}
    \cup {BlockerRow(b) : b \in {x \in blockers : BlockerSelected(x, p_vendor_id)}}
    \cup {ActionItemRow(ai) : ai \in {x \in action_items : ActionItemSelected(x, p_vendor_id)}}

\* ORDER BY score DESC: every order of the rows in which the score never
\* increases; SQL leaves the order of rows with equal scores open.
RECURSIVE OrderByScoreDesc(_)
OrderByScoreDesc(S) ==
    IF S = {} THEN {<<>>}
    ELSE UNION {{<<r>> \o t : t \in OrderByScoreDesc(S \ {r})} :
                r \in {x \in S : \A y \in S : x.score >= y.score}}

\* ROW_NUMBER() OVER (ORDER BY score DESC), computed on the sorted rows
RowNumber(s) == [i \in 1..Len(s) |-> [s[i] EXCEPT !.rank = i]]

\* (mutant of Limit: one row too many)
LimitPlusOne(s, p_limit) == SubSeq(s, 1, Min(Len(s), p_limit + 1))

\* LIMIT p_limit
Limit(s, p_limit) == SubSeq(s, 1, Min(Len(s), p_limit))

\* the set of results the call can return
generate_vendor_agenda(p_vendor_id, p_limit) ==
    {Limit(RowNumber(s), p_limit) : s \in OrderByScoreDesc(scored_items(p_vendor_id))}

-----------------------------------------------------------------------------
(* The ranking specification: one call of generate_vendor_agenda on a      *)
(* store drawn from a bounded set of stores.                               *)

Now0 == 30 * TicksPerDay + 1

\* a timestamp d days and f ticks before Now0
Ago(d, f) == Now0 - (d * TicksPerDay + f)

NoOp == [op |-> "none", entity_type |-> NULL, entity_id |-> 0, idx |-> 0]
\* the arguments of a call of generate_vendor_agenda that has not returned
Call(p_vendor_id, p_limit) ==
    [called |-> FALSE, p_vendor_id |-> p_vendor_id, p_limit |-> p_limit, rows |-> <<>>]

AgendaItem(id, v, sev, pri, st, raised, esc, res) ==
    [id |-> id, vendor_id |-> v, title |-> "t", severity |-> sev,
     context |-> NULL, ask |-> NULL, priority |-> pri, status |-> st,
     first_raised_at |-> raised, escalation_count |-> esc,
     resolved_at |-> res, owner_id |-> NULLT]

Blocker(id, v, pri, st, flagged, esc, res) ==
    [id |-> id, vendor_id |-> v, title |-> "t", description |-> NULL,
     impact_description |-> NULL, priority |-> pri, status |-> st,
     first_flagged_at |-> flagged, escalation_count |-> esc,
     resolved_at |-> res, owner_id |-> NULLT]

ActionItem(id, v, pri, st, due, flagged, esc, res) ==
    [id |-> id, vendor_id |-> v, title |-> "t", description |-> NULL,
     notes |-> NULL, priority |-> pri, status |-> st, due_date |-> due,
     first_flagged_at |-> flagged, escalation_count |-> esc,
     resolved_at |-> res, owner_id |-> NULLT]

\* the varied record (id 1): an open record of vendor V1
VariedAgendaItems ==
    {AgendaItem(1, "V1", sev, pri, "pending", Ago(a[1], a[2]), a[3], NULLT) :
        sev \in SeverityIndicator, pri \in PriorityLevel,
        a \in {<<0, 0, 0>>, <<3, 1, 1>>}}

VariedBlockers ==
    {Blocker(1, "V1", pri, "blocked", Ago(a[1], a[2]), a[3], NULLT) :
        pri \in PriorityLevel,
        a \in {<<0, 1, 0>>, <<7, 1, 2>>, <<8, 0, 0>>, <<21, 1, 1>>, <<22, 0, 0>>}}

VariedActionItems ==
    {ActionItem(1, "V1", pri, "in_progress",
                IF a[1] = 99 THEN NULLT ELSE Now0 \div TicksPerDay + a[1],
                Ago(10, 0), a[2], NULLT) :
        pri \in PriorityLevel,
        a \in {<<99, 0>>, <<-21, 0>>, <<-20, 1>>, <<-8, 0>>, <<-7, 1>>,
               <<-1, 0>>, <<0, 1>>, <<1, 0>>}}

VariedStores ==
    {[agenda_items |-> {x}, blockers |-> {}, action_items |-> {}] : x \in VariedAgendaItems}
    \cup {[agenda_items |-> {}, blockers |-> {x}, action_items |-> {}] : x \in VariedBlockers}
    \cup {[agenda_items |-> {}, blockers |-> {}, action_items |-> {x}] : x \in VariedActionItems}

\* the other records (ids 2, 3, ...): medium priority, one day old, never
\* escalated, of one of the three types and in one of five situations
Situations ==
    << [v |-> "V1", st |-> "pending", res |-> NULLT],
       [v |-> "V2", st |-> "pending", res |-> NULLT],
       [v |-> "V1", st |-> "complete", res |-> Ago(0, 1)],
       [v |-> "V1", st |-> "complete", res |-> NULLT],
       [v |-> "V1", st |-> "at_risk", res |-> Ago(0, 1)] >>

PlainIds == 2 .. (MaxPlain + 1)

\* choices 1..5 an agenda item, 6..10 a blocker, 11..15 an action item, 0 none;
\* the choices do not decrease with the id (the ids are interchangeable)
PlainChoices ==
    {c \in [PlainIds -> 0..15] : \A i, j \in PlainIds : i < j => c[i] <= c[j]}

PlainAgendaItems(c) ==
    {AgendaItem(i, Situations[c[i]].v, "normal", "medium", Situations[c[i]].st,
                Ago(1, 1), 0, Situations[c[i]].res) :
        i \in {j \in PlainIds : c[j] \in 1..5}}

PlainBlockers(c) ==
    {Blocker(i, Situations[c[i] - 5].v, "medium", Situations[c[i] - 5].st,
             Ago(1, 1), 0, Situations[c[i] - 5].res) :
        i \in {j \in PlainIds : c[j] \in 6..10}}

PlainActionItems(c) ==
    {ActionItem(i, Situations[c[i] - 10].v, "medium", Situations[c[i] - 10].st,
                NULLT, Ago(1, 1), 0, Situations[c[i] - 10].res) :
        i \in {j \in PlainIds : c[j] \in 11..15}}

InitRank ==
    /\ now = Now0
    /\ \E v \in VariedStores, c \in PlainChoices :
         /\ agenda_items = v.agenda_items \cup PlainAgendaItems(c)
         /\ blockers = v.blockers \cup PlainBlockers(c)
         /\ action_items = v.action_items \cup PlainActionItems(c)
    /\ \E p_vendor_id \in Vendors, p_limit \in 1..MaxLimit :
         fetched = Call(p_vendor_id, p_limit)
    /\ items = <<>>
    /\ rendered = <<>>
    /\ pending = {}
    /\ awaiting = {}
    /\ lastOp = NoOp
    /\ ops = 0
    /\ clipboard = <<>>
    /\ nextId = FirstNewId
    /\ IntakeIdle

\* supabase.rpc("generate_vendor_agenda", {p_vendor_id, p_limit})
FetchAgenda ==
    \E rows \in generate_vendor_agenda(fetched.p_vendor_id, fetched.p_limit) :
        /\ fetched' = [fetched EXCEPT !.called = TRUE, !.rows = rows]
        /\ UNCHANGED <<intake, tables, now, controller>>

NextRank == FetchAgenda

SpecRank == InitRank /\ [][NextRank]_vars

-----------------------------------------------------------------------------
(* The queue controller: AgendaView of components/agenda-view.tsx, on the  *)
(* agenda of vendor V1 as the page loads it.                               *)

PageVendor == "V1"
PageLimit == 20

\* the records of the example of the specification: A (id 1) an action item,
\* B (id 2) and C (id 3) discussion topics, and a blocker D (id 4)
ExampleA ==
    [ActionItem(1, PageVendor, "high", "pending", NULLT, Ago(10, 0), 0, NULLT)
        EXCEPT !.title = "A", !.owner_id = 1]
ExampleB ==
    [AgendaItem(2, PageVendor, "normal", "high", "pending", Ago(3, 1), 2, NULLT)
        EXCEPT !.title = "B", !.context = "ctx", !.ask = "ask"]
ExampleC ==
    [AgendaItem(3, PageVendor, "normal", "critical", "pending", Ago(0, 1), 0, NULLT)
        EXCEPT !.title = "C"]
ExampleD ==
    [Blocker(4, PageVendor, "low", "blocked", Ago(0, 0), 0, NULLT)
        EXCEPT !.title = "D", !.description = "desc"]

\* priorityRank[p] ?? 2
priorityRank(p) ==
    CASE p = "critical" -> 0
      [] p = "high" -> 1
      [] p = "medium" -> 2
      [] p = "low" -> 3
      [] OTHER -> 2

rankToPriority == <<"critical", "high", "medium", "low">>

\* prev.findIndex((i) => i.entity_type === item.entity_type &&
\*                       i.entity_id === item.entity_id), counted from 1; 0: not found
findIndex(prev, item) ==
    LET hits == {i \in 1..Len(prev) : prev[i].entity_type = item.entity_type
                                       /\ prev[i].entity_id = item.entity_id}
    IN  IF hits = {} THEN 0 ELSE CHOOSE i \in hits : \A j \in hits : i <= j

\* [a[i], a[j]] = [a[j], a[i]]
Swap(a, i, j) ==
    [k \in 1..Len(a) |-> IF k = i THEN a[j] ELSE IF k = j THEN a[i] ELSE a[k]]

\* (mutant of Rerank: ranks counted from 0)
RerankFromZero(a) == [k \in 1..Len(a) |-> [a[k] EXCEPT !.rank = k - 1]]

\* updated.map((it, i) => ({ ...it, rank: i + 1 }))
Rerank(a) == [k \in 1..Len(a) |-> [a[k] EXCEPT !.rank = k]]

TableOf(item) ==
    IF item.entity_type = "agenda_item" THEN "agenda_items"
    ELSE IF item.entity_type = "blocker" THEN "blockers" ELSE "action_items"

\* (mutant of EscalateNewPriority: a promotion goes to the top bracket)
EscalateNewPriorityTop(prev, item) ==
    LET idx == findIndex(prev, item) IN
    IF idx <= 1 THEN NULL
    ELSE IF priorityRank(prev[idx - 1].priority) < priorityRank(prev[idx].priority)
         THEN rankToPriority[1]
         ELSE NULL

\* the priority handleEscalate's updater assigns to newPriority (NULL: none)
EscalateNewPriority(prev, item) ==
    LET idx == findIndex(prev, item) IN
    IF idx <= 1 THEN NULL
    ELSE IF priorityRank(prev[idx - 1].priority) < priorityRank(prev[idx].priority)
         THEN rankToPriority[priorityRank(prev[idx - 1].priority) + 1]
         ELSE NULL

\* (mutant of EscalateUpdater: the count is raised only with the bracket)
EscalateUpdaterCountsPromotions(prev, item) ==
    LET idx == findIndex(prev, item)
        newPriority == EscalateNewPriority(prev, item)
        raised == IF newPriority # NULL
                  THEN [prev[idx] EXCEPT !.escalation_count = @ + 1,
                                         !.priority = newPriority]
                  ELSE prev[idx]
    IN  IF idx <= 1 THEN prev
        ELSE Rerank(Swap([prev EXCEPT ![idx] = raised], idx - 1, idx))

\* (mutant of EscalateUpdater: the first item is counted, though not moved)
EscalateUpdaterCountsFirst(prev, item) ==
    LET idx == findIndex(prev, item)
        newPriority == EscalateNewPriority(prev, item)
        raised == IF newPriority # NULL
                  THEN [prev[idx] EXCEPT !.escalation_count = @ + 1,
                                         !.priority = newPriority]
                  ELSE [prev[idx] EXCEPT !.escalation_count = @ + 1]
    IN  IF idx < 1 THEN prev
        ELSE IF idx = 1 THEN [prev EXCEPT ![idx] = raised]
        ELSE Rerank(Swap([prev EXCEPT ![idx] = raised], idx - 1, idx))

\* the updater handleEscalate passes to setItems
EscalateUpdater(prev, item) ==
    LET idx == findIndex(prev, item)
        newPriority == EscalateNewPriority(prev, item)
        raised == IF newPriority # NULL
                  THEN [prev[idx] EXCEPT !.escalation_count = @ + 1,
                                         !.priority = newPriority]
                  ELSE [prev[idx] EXCEPT !.escalation_count = @ + 1]
    IN  IF idx <= 1 THEN prev
        ELSE Rerank(Swap([prev EXCEPT ![idx] = raised], idx - 1, idx))

\* (mutant of DeescalateNewPriority: a demotion goes to the bottom bracket)
DeescalateNewPriorityBottom(prev, item) ==
    LET idx == findIndex(prev, item) IN
    IF idx < 1 \/ idx >= Len(prev) THEN NULL
    ELSE IF priorityRank(prev[idx + 1].priority) > priorityRank(prev[idx].priority)
         THEN rankToPriority[4]
         ELSE NULL

\* the priority handleDeescalate's updater assigns to newPriority (NULL: none)
DeescalateNewPriority(prev, item) ==
    LET idx == findIndex(prev, item) IN
    IF idx < 1 \/ idx >= Len(prev) THEN NULL
    ELSE IF priorityRank(prev[idx + 1].priority) > priorityRank(prev[idx].priority)
         THEN rankToPriority[priorityRank(prev[idx + 1].priority) + 1]
         ELSE NULL

\* the updater handleDeescalate passes to setItems
DeescalateUpdater(prev, item) ==
    LET idx == findIndex(prev, item)
        newPriority == DeescalateNewPriority(prev, item)
        lowered == IF newPriority # NULL
                   THEN [prev[idx] EXCEPT !.priority = newPriority]
                   ELSE prev[idx]
    IN  IF idx < 1 \/ idx >= Len(prev) THEN prev
        ELSE Rerank(Swap([prev EXCEPT ![idx] = lowered], idx, idx + 1))

\* (mutant of FilterOut: === for !==, the item alone is kept)
FilterOutInverted(list, item) == SelectSeq(list, LAMBDA i : i.entity_id = item.entity_id)

\* items.filter((i) => i.entity_id !== item.entity_id)
FilterOut(list, item) == SelectSeq(list, LAMBDA i : i.entity_id # item.entity_id)

\* supabase.from(table).update(updates).eq("id", id) / .delete().eq("id", id)
UpdateWrite(table, id, updates) ==
    [kind |-> "update", table |-> table, id |-> id, updates |-> updates]
DeleteWrite(table, id) ==
    [kind |-> "delete", table |-> table, id |-> id, updates |-> <<>>]

\* the write handleEscalate builds; newPriority is what the updater has
\* assigned by then
EscalateWrite(item, newPriority) ==
    UpdateWrite(TableOf(item), item.entity_id,
        IF newPriority # NULL
        THEN [escalation_count |-> item.escalation_count + 1, priority |-> newPriority]
        ELSE [escalation_count |-> item.escalation_count + 1])

\* (mutant of DeescalateWrite: the write takes the escalation back)
DeescalateWriteCount(item, newPriority) ==
    UpdateWrite(TableOf(item), item.entity_id,
        [priority |-> newPriority, escalation_count |-> item.escalation_count - 1])

DeescalateWrite(item, newPriority) ==
    UpdateWrite(TableOf(item), item.entity_id, [priority |-> newPriority])

ResolveWrite(item, at) ==
    UpdateWrite(TableOf(item), item.entity_id, [status |-> "complete", resolved_at |-> at])

\* supabase.from("agenda_items").insert(columns)
InsertWrite(columns) ==
    [kind |-> "insert", table |-> "agenda_items", id |-> 0, updates |-> columns]

\* String.prototype.trim() on the texts the form fields can hold
trim(s) ==
    CASE s = " " -> ""
      [] s = " N " -> "N"
      [] s = " c " -> "c"
      [] OTHER -> s

\* s || null
OrNull(s) == IF s = "" THEN NULL ELSE s

\* (mutant of AddItemWrite: the priority is left to the form, as high)
AddItemWriteHigh(newTitle, newContext, newAsk) ==
    InsertWrite([vendor_id |-> PageVendor, title |-> trim(newTitle),
                 context |-> OrNull(trim(newContext)), ask |-> OrNull(trim(newAsk)),
                 severity |-> "new", priority |-> "high"])

\* the insert handleAddItem builds
AddItemWrite(newTitle, newContext, newAsk) ==
    InsertWrite([vendor_id |-> PageVendor, title |-> trim(newTitle),
                 context |-> OrNull(trim(newContext)), ask |-> OrNull(trim(newAsk)),
                 severity |-> "new", priority |-> "medium"])

\* (mutant of SaveEditWrite: saving an edit reopens the record)
SaveEditWriteReopens(item, editFields) ==
    UpdateWrite(TableOf(item), item.entity_id,
        [title |-> editFields.title, priority |-> editFields.priority,
         status |-> "pending", resolved_at |-> NULLT])

\* (mutant of SaveEditWrite: the row's fields are written back whole)
SaveEditWriteWholeRow(item, editFields) ==
    UpdateWrite(TableOf(item), item.entity_id,
        [title |-> editFields.title, priority |-> editFields.priority,
         escalation_count |-> item.escalation_count])

\* the update handleSaveEdit builds
SaveEditWrite(item, editFields) ==
    UpdateWrite(TableOf(item), item.entity_id,
        CASE item.entity_type = "agenda_item" ->
                [title |-> editFields.title, priority |-> editFields.priority,
                 context |-> OrNull(editFields.context), ask |-> OrNull(editFields.ask)]
          [] item.entity_type = "action_item" ->
                [title |-> editFields.title, priority |-> editFields.priority,
                 notes |-> OrNull(editFields.context)]
          [] item.entity_type = "blocker" ->
                [title |-> editFields.title, priority |-> editFields.priority,
                 impact_description |-> OrNull(editFields.context)]
          [] OTHER ->
                [title |-> editFields.title, priority |-> editFields.priority])

\* the column defaults of table agenda_items, for the record of id `id`
agenda_items_defaults(id) ==
    [id |-> id, vendor_id |-> NULL, title |-> NULL, severity |-> "normal",
     context |-> NULL, ask |-> NULL, priority |-> "medium", status |-> "pending",
     first_raised_at |-> now, escalation_count |-> 0,
     resolved_at |-> NULLT, owner_id |-> NULLT]

\* the effect of a write on one table
ApplyTo(rows, name, w) ==
    IF w.table # name THEN rows
    ELSE IF w.kind = "delete" THEN {r \in rows : r.id # w.id}
    ELSE IF w.kind = "insert"
    THEN rows \cup {[c \in DOMAIN agenda_items_defaults(nextId) |->
                        IF c \in DOMAIN w.updates THEN w.updates[c]
                        ELSE agenda_items_defaults(nextId)[c]]}
    ELSE {IF r.id = w.id
          THEN [c \in DOMAIN r |-> IF c \in DOMAIN w.updates THEN w.updates[c] ELSE r[c]]
          ELSE r : r \in rows}

Apply(w) ==
    /\ agenda_items' = ApplyTo(agenda_items, "agenda_items", w)
    /\ blockers' = ApplyTo(blockers, "blockers", w)
    /\ action_items' = ApplyTo(action_items, "action_items", w)

RenderedItems == {rendered[i] : i \in 1..Len(rendered)}

Op(op, item, idx) ==
    [op |-> op, entity_type |-> item.entity_type, entity_id |-> item.entity_id,
     idx |-> idx]

\* VendorAgendaPage on a store of the given records: the rows the page
\* passes as initialItems
PageLoaded(ag, b, ai) ==
    /\ now = Now0
    /\ agenda_items = ag
    /\ blockers = b
    /\ action_items = ai
    /\ \E rows \in generate_vendor_agenda(PageVendor, PageLimit) :
         /\ fetched = [called |-> TRUE, p_vendor_id |-> PageVendor,
                       p_limit |-> PageLimit, rows |-> rows]
         /\ items = rows
         /\ rendered = rows
    /\ pending = {}
    /\ awaiting = {}
    /\ lastOp = NoOp
    /\ ops = 0
    /\ clipboard = <<>>
    /\ nextId = FirstNewId

Init ==
    /\ IntakeIdle
    /\ \E extra \in SUBSET {ExampleD} : PageLoaded({ExampleB, ExampleC}, extra, {ExampleA})

\* handleEscalate(item), the click on a row of the rendered list.  React runs
\* the updater at once when the component has no update queued and during
\* the next render otherwise; `eager` tells which, and so whether
\* newPriority is assigned before the write is built.
handleEscalate(item, eager) ==
    /\ ops < MaxOps
    /\ ops' = ops + 1
    /\ items' = EscalateUpdater(items, item)
    /\ rendered' = items'
    /\ pending' = pending \cup
         {EscalateWrite(item, IF eager THEN EscalateNewPriority(items, item) ELSE NULL)}
    /\ lastOp' = Op("escalate", item, findIndex(items, item))
    /\ UNCHANGED <<intake, tables, now, fetched, awaiting, clipboard, nextId>>

\* handleDeescalate(item)
handleDeescalate(item, eager) ==
    /\ ops < MaxOps
    /\ ops' = ops + 1
    /\ items' = DeescalateUpdater(items, item)
    /\ rendered' = items'
    /\ pending' = IF eager /\ DeescalateNewPriority(items, item) # NULL
                  THEN pending \cup
                         {DeescalateWrite(item, DeescalateNewPriority(items, item))}
                  ELSE pending
    /\ lastOp' = Op("deescalate", item, findIndex(items, item))
    /\ UNCHANGED <<intake, tables, now, fetched, awaiting, clipboard, nextId>>

\* handleResolve(item) up to its await: the write is sent, the handler keeps
\* the `items` of the render it was created in
handleResolve(item) ==
    /\ ops < MaxOps
    /\ ops' = ops + 1
    /\ awaiting' = awaiting \cup
         {[handler |-> "resolve", item |-> item, items |-> rendered, call |-> 0,
           write |-> ResolveWrite(item, now)]}
    /\ lastOp' = Op("resolve", item, findIndex(items, item))
    /\ UNCHANGED <<intake, tables, now, fetched, items, rendered, pending, clipboard, nextId>>

\* handleDelete(item) up to its await
handleDelete(item) ==
    /\ ops < MaxOps
    /\ ops' = ops + 1
    /\ awaiting' = awaiting \cup
         {[handler |-> "delete", item |-> item, items |-> rendered, call |-> 0,
           write |-> DeleteWrite(TableOf(item), item.entity_id)]}
    /\ lastOp' = Op("delete", item, findIndex(items, item))
    /\ UNCHANGED <<intake, tables, now, fetched, items, rendered, pending, clipboard, nextId>>

\* the row position of a handler that is not invoked on a row
NoItem == [entity_type |-> NULL, entity_id |-> 0]

\* handleAddItem() up to its await, on the texts of the form; a blank title
\* returns at once.  `call` tells two suspended calls with the same texts
\* apart: each inserts a record of its own.
handleAddItem(newTitle, newContext, newAsk) ==
    /\ ops < MaxOps
    /\ ops' = ops + 1
    /\ awaiting' = IF trim(newTitle) = "" THEN awaiting
                   ELSE awaiting \cup
                          {[handler |-> "add", item |-> NoItem, items |-> <<>>, call |-> ops + 1,
                            write |-> AddItemWrite(newTitle, newContext, newAsk)]}
    /\ lastOp' = Op("add", NoItem, IF trim(newTitle) = "" THEN 0 ELSE 1)
    /\ UNCHANGED <<intake, tables, now, fetched, items, rendered, pending, clipboard, nextId>>

\* startEdit(item): the fields the edit form opens with
startEdit(item) ==
    [title |-> item.title,
     context |-> IF item.context = NULL THEN "" ELSE item.context,
     ask |-> IF item.ask = NULL THEN "" ELSE item.ask,
     priority |-> item.priority]

\* the fields the form can hold when it is saved
EditChoices(item) ==
    {[startEdit(item) EXCEPT !.title = "E", !.context = "", !.ask = ""],
     [startEdit(item) EXCEPT !.priority = "low", !.context = "c2", !.ask = "a2"]}

\* handleSaveEdit(item) up to its await
handleSaveEdit(item, editFields) ==
    /\ ops < MaxOps
    /\ ops' = ops + 1
    /\ awaiting' = awaiting \cup
         {[handler |-> "edit", item |-> item, items |-> <<>>, call |-> 0,
           write |-> SaveEditWrite(item, editFields)]}
    /\ lastOp' = Op("edit", item, findIndex(items, item))
    /\ UNCHANGED <<intake, tables, now, fetched, items, rendered, pending, clipboard, nextId>>

\* item.severity.toUpperCase()
toUpperCase(s) ==
    CASE s = "critical" -> "CRITICAL"
      [] s = "high" -> "HIGH"
      [] s = "new" -> "NEW"
      [] s = "normal" -> "NORMAL"

\* the em dash (U+2014) of the placeholder, in ASCII
EmDash == "--"

\* x || EmDash
OrDash(x) == IF x = NULL \/ x = "" THEN EmDash ELSE x

\* the five lines exportMarkdown starts with; the date is left symbolic
ExportPreamble ==
    << <<"# ", PageVendor, " Meeting Agenda">>,
       <<"**Generated:** ", "date">>,
       <<"">>,
       <<"| # | Severity | Topic | Context | Ask | Owner |">>,
       <<"|---|----------|-------|---------|-----|-------|">> >>

\* (mutant of ExportRow: the severity is written as stored)
ExportRowAsStored(item) ==
    <<ToString(item.rank), item.severity, item.title,
      OrDash(item.context), OrDash(item.ask), OrDash(item.owner_name)>>

\* the cells of the line exportMarkdown pushes for an item
ExportRow(item) ==
    <<ToString(item.rank), toUpperCase(item.severity), item.title,
      OrDash(item.context), OrDash(item.ask), OrDash(item.owner_name)>>

\* exportMarkdown(): the lines joined and written to the clipboard
exportMarkdown ==
    /\ ops < MaxOps
    /\ ops' = ops + 1
    /\ clipboard' = ExportPreamble \o [k \in 1..Len(rendered) |-> ExportRow(rendered[k])]
    /\ lastOp' = Op("export", NoItem, 0)
    /\ UNCHANGED <<intake, tables, now, fetched, items, rendered, pending, awaiting, nextId>>

\* router.refresh(): the page runs again on the store as it is then and
\* passes new initialItems, which useState(initialItems) does not read after
\* the first render
Refresh ==
    \E rows \in generate_vendor_agenda(PageVendor, PageLimit)' :
        fetched' = [called |-> TRUE, p_vendor_id |-> PageVendor,
                    p_limit |-> PageLimit, rows |-> rows]

\* the name lastOp gives the end of a handler
Ended(handler, ok) ==
    CASE handler = "resolve" -> IF ok THEN "resolved" ELSE "resolve failed"
      [] handler = "delete" -> IF ok THEN "deleted" ELSE "delete failed"
      [] handler = "add" -> IF ok THEN "added" ELSE "add failed"
      [] handler = "edit" -> IF ok THEN "saved" ELSE "save failed"

\* the awaited write of handleResolve, handleDelete, handleAddItem or
\* handleSaveEdit returns, applied (ok) or failed, and the handler runs to
\* its end
AwaitReturns(h, ok) ==
    /\ awaiting' = awaiting \ {h}
    /\ IF ok THEN Apply(h.write) ELSE UNCHANGED tables
    /\ nextId' = IF ok /\ h.write.kind = "insert" THEN nextId + 1 ELSE nextId
    /\ items' = IF h.handler \in {"resolve", "delete"}
                THEN FilterOut(h.items, h.item) ELSE items
    /\ UNCHANGED <<intake, now>>
    /\ Refresh
    /\ lastOp' = Op(Ended(h.handler, ok), h.item, findIndex(items, h.item))
    /\ UNCHANGED <<rendered, pending, ops, clipboard>>

\* React commits the render scheduled by a setItems outside an event handler
Render ==
    /\ rendered # items
    /\ rendered' = items
    /\ UNCHANGED <<intake, tables, now, fetched, items, pending, awaiting, lastOp, ops, clipboard, nextId>>

\* a write of handleEscalate or handleDeescalate reaches the store
WriteApplied(w) ==
    /\ pending' = pending \ {w}
    /\ Apply(w)
    /\ UNCHANGED <<intake, now, fetched, items, rendered, awaiting, lastOp, ops, clipboard, nextId>>

\* a write of handleEscalate or handleDeescalate fails or is never sent
WriteLost(w) ==
    /\ pending' = pending \ {w}
    /\ UNCHANGED <<intake, tables, now, fetched, items, rendered, awaiting, lastOp, ops, clipboard, nextId>>

Escalate == \E item \in RenderedItems, eager \in BOOLEAN : handleEscalate(item, eager)
Deescalate == \E item \in RenderedItems, eager \in BOOLEAN : handleDeescalate(item, eager)
Resolve == \E item \in RenderedItems : handleResolve(item)
Delete == \E item \in RenderedItems : handleDelete(item)
Return == \E h \in awaiting, ok \in BOOLEAN : AwaitReturns(h, ok)
Applied == \E w \in pending : WriteApplied(w)
Lost == \E w \in pending : WriteLost(w)
AddItem == \E texts \in {<<" ", "a", "a">>, <<" N ", "", " ">>, <<" N ", " c ", "a">>} :
              handleAddItem(texts[1], texts[2], texts[3])
SaveEdit == \E item \in RenderedItems : \E editFields \in EditChoices(item) :
               handleSaveEdit(item, editFields)
Export == exportMarkdown

Next ==
    \/ Escalate
    \/ Deescalate
    \/ Resolve
    \/ Delete
    \/ Return
    \/ Render
    \/ Applied
    \/ Lost

Spec == Init /\ [][Next]_vars

\* the controller in a session in which every write is sent and succeeds
ReturnOk == \E h \in awaiting : AwaitReturns(h, TRUE)

NextOk ==
    \/ Escalate
    \/ Deescalate
    \/ Resolve
    \/ Delete
    \/ ReturnOk
    \/ Render
    \/ Applied

SpecOk == Init /\ [][NextOk]_vars

\* the controller with all its operations
NextAll ==
    \/ Escalate
    \/ Deescalate
    \/ Resolve
    \/ Delete
    \/ AddItem
    \/ SaveEdit
    \/ Export
    \/ Return
    \/ Render
    \/ Applied
    \/ Lost

\* a store with one record of each type
InitAll == IntakeIdle /\ PageLoaded({ExampleB}, {ExampleD}, {ExampleA})

SpecAll == InitAll /\ [][NextAll]_vars

-----------------------------------------------------------------------------
(* Intake: the RAID entries handleConfirm creates, in intake/page.tsx and  *)
(* in intake/[id]/review/page.tsx, on table raid_entries                  *)

\* the letter a display id of the type begins with
Prefix(raid_type) ==
    CASE raid_type = "decision" -> "D"
      [] raid_type = "issue" -> "I"
      [] raid_type = "risk" -> "R"

\* count || 0
OrZero(count) == IF count = NULLT THEN 0 ELSE count

\* `D${(count || 0) + idx + 1}`, idx counted from 0
display_id(raid_type, count, idx) == <<Prefix(raid_type), OrZero(count) + idx + 1>>

\* select("*", {count: "exact", head: true}).eq("org_id", orgId).eq("raid_type", t)
CountOf(org_id, raid_type) ==
    Cardinality({r \in raid_entries : r.org_id = org_id /\ r.raid_type = raid_type})

\* the rows handleConfirm of page p inserts for the n accepted items of a
\* type; the store gives each an id of its own
NewEntries(p, org_id, raid_type, count, n) ==
    {[id |-> <<p, raid_type, idx>>, org_id |-> org_id, raid_type |-> raid_type,
      display_id |-> display_id(raid_type, count, idx)] : idx \in 0..(n - 1)}

\* (mutant of RaidInsert: a unique index on org_id, raid_type, display_id
\* rejects the batch)
RaidInsertUnique(rows) ==
    IF \E r \in rows, q \in raid_entries :
          r.org_id = q.org_id /\ r.raid_type = q.raid_type /\ r.display_id = q.display_id
    THEN raid_entries
    ELSE raid_entries \cup rows

\* insert into raid_entries: the table constrains its primary key only
RaidInsert(rows) == raid_entries \cup rows

\* the next type after position k that has accepted items, the
\* `if (accepted.length > 0)` blocks being passed in order
NextStep(accepted, k) ==
    IF \E j \in (k + 1)..Len(RaidTypes) : accepted[RaidTypes[j]] > 0
    THEN CHOOSE j \in (k + 1)..Len(RaidTypes) :
            /\ accepted[RaidTypes[j]] > 0
            /\ \A i \in (k + 1)..(j - 1) : accepted[RaidTypes[i]] = 0
    ELSE Len(RaidTypes) + 1

\* handleConfirm of page p about to run for an organisation and an extraction
Confirming(org_id, accepted) ==
    [org_id |-> org_id, accepted |-> accepted, step |-> NextStep(accepted, 0),
     counted |-> FALSE, count |-> NULLT]

\* the accepted items of an extraction, by type
AcceptedChoices ==
    {[decision |-> d, issue |-> i, risk |-> r] : d \in 0..MaxAccepted, i \in 0..1, r \in 0..1}

RaidOp(op, raid_type, count) ==
    [op |-> op, entity_type |-> raid_type, entity_id |-> 0, idx |-> count]

\* handleConfirm of page p awaits the count of the entries of the type it
\* is at; a failed request leaves count null
ReadCount(p, ok) ==
    LET c == confirms[p] IN
    /\ c.step <= Len(RaidTypes)
    /\ ~c.counted
    /\ confirms' = [confirms EXCEPT ![p].counted = TRUE,
                      ![p].count = IF ok THEN CountOf(c.org_id, RaidTypes[c.step])
                                   ELSE NULLT]
    /\ lastOp' = RaidOp(IF ok THEN "counted" ELSE "count failed", RaidTypes[c.step],
                        confirms'[p].count)
    /\ UNCHANGED <<raid_entries, tables, now, fetched, items, rendered, pending,
                   awaiting, ops, clipboard, nextId>>

\* handleConfirm of page p awaits the insert of the accepted items of the
\* type, labelled from the count it read, and goes on to the next type
InsertEntries(p, ok) ==
    LET c == confirms[p] IN
    /\ c.step <= Len(RaidTypes)
    /\ c.counted
    /\ raid_entries' =
         IF ok THEN RaidInsert(NewEntries(p, c.org_id, RaidTypes[c.step], c.count,
                                          c.accepted[RaidTypes[c.step]]))
         ELSE raid_entries
    /\ confirms' = [confirms EXCEPT ![p].step = NextStep(c.accepted, c.step),
                      ![p].counted = FALSE, ![p].count = NULLT]
    /\ lastOp' = RaidOp(IF ok THEN "inserted" ELSE "insert failed", RaidTypes[c.step],
                        c.count)
    /\ UNCHANGED <<tables, now, fetched, items, rendered, pending,
                   awaiting, ops, clipboard, nextId>>

InitIntake ==
    /\ PageLoaded({}, {}, {})
    /\ raid_entries = {}
    /\ \E org_id \in Orgs, a1 \in AcceptedChoices, a2 \in AcceptedChoices :
         confirms = [p \in Pages |-> IF p = "intake" THEN Confirming("O1", a1)
                                     ELSE Confirming(org_id, a2)]

Count == \E p \in Pages, ok \in BOOLEAN : ReadCount(p, ok)
Insert == \E p \in Pages, ok \in BOOLEAN : InsertEntries(p, ok)

NextIntake == Count \/ Insert

SpecIntake == InitIntake /\ [][NextIntake]_vars

-----------------------------------------------------------------------------
(* Claims about the ranking function, checked under SpecRank *)

\* the stored record behind a returned row
StoredRecord(row) ==
    CASE row.entity_type = "agenda_item" ->
            CHOOSE r \in agenda_items : r.id = row.entity_id
      [] row.entity_type = "blocker" ->
            CHOOSE r \in blockers : r.id = row.entity_id
      [] row.entity_type = "action_item" ->
            CHOOSE r \in action_items : r.id = row.entity_id

IsStored(row) ==
    CASE row.entity_type = "agenda_item" -> \E r \in agenda_items : r.id = row.entity_id
      [] row.entity_type = "blocker" -> \E r \in blockers : r.id = row.entity_id
      [] row.entity_type = "action_item" -> \E r \in action_items : r.id = row.entity_id
      [] OTHER -> FALSE

Returned(entity_type, id) ==
    \E i \in 1..Len(fetched.rows) :
        fetched.rows[i].entity_type = entity_type /\ fetched.rows[i].entity_id = id

RanksAreOneToLen(rows) == \A i \in 1..Len(rows) : rows[i].rank = i

\* C1 as stated: the returned list has at most N rows, each score is strictly
\* greater than the next one, and the row at position i has rank i.
C1_Original ==
    fetched.called =>
        /\ Len(fetched.rows) <= fetched.p_limit
        /\ \A i \in 1..(Len(fetched.rows) - 1) :
               fetched.rows[i].score > fetched.rows[i + 1].score
        /\ RanksAreOneToLen(fetched.rows)

\* C1 amended: the returned list has at most N rows, no score is smaller than
\* the next one (equal scores are adjacent, in either order), and the row at
\* position i has rank i.
C1_Amended ==
    fetched.called =>
        /\ Len(fetched.rows) <= fetched.p_limit
        /\ \A i \in 1..(Len(fetched.rows) - 1) :
               fetched.rows[i].score >= fetched.rows[i + 1].score
        /\ RanksAreOneToLen(fetched.rows)

\* a call that truncated its result and returned two rows of equal score
C1_Witness ==
    /\ fetched.called
    /\ Cardinality(scored_items(fetched.p_vendor_id)) > fetched.p_limit
    /\ Len(fetched.rows) = fetched.p_limit
    /\ \E i \in 1..(Len(fetched.rows) - 1) :
           fetched.rows[i].score = fetched.rows[i + 1].score

ReturnedRows == {fetched.rows[i] : i \in 1..Len(fetched.rows)}

\* a record of the vendor that the call may leave out only for the limit
LeftOutOnlyForLimit(row) ==
    \/ Returned(row.entity_type, row.entity_id)
    \/ /\ Len(fetched.rows) = fetched.p_limit
       /\ \A r \in ReturnedRows : r.score >= row.score

\* C2 as stated (its conjuncts about the result): every returned row is a
\* record of vendor V whose status is not complete and whose resolution
\* timestamp is unset, and such a record is left out only when N rows with
\* scores at least as high are returned.
C2_Original ==
    fetched.called =>
        /\ \A row \in ReturnedRows :
              /\ IsStored(row)
              /\ StoredRecord(row).vendor_id = fetched.p_vendor_id
              /\ StoredRecord(row).status # "complete"
              /\ StoredRecord(row).resolved_at = NULLT
        /\ \A ag \in agenda_items :
              (ag.vendor_id = fetched.p_vendor_id /\ ag.status # "complete"
                 /\ ag.resolved_at = NULLT) => LeftOutOnlyForLimit(AgendaItemRow(ag))
        /\ \A b \in blockers :
              (b.vendor_id = fetched.p_vendor_id /\ b.status # "complete"
                 /\ b.resolved_at = NULLT) => LeftOutOnlyForLimit(BlockerRow(b))
        /\ \A ai \in action_items :
              (ai.vendor_id = fetched.p_vendor_id /\ ai.status # "complete"
                 /\ ai.resolved_at = NULLT) => LeftOutOnlyForLimit(ActionItemRow(ai))

\* the result part of C2 amended: a discussion topic or a blocker counts as
\* open when its status is not complete and its resolution timestamp is
\* unset, an action item when its status is not complete
C2_Selection ==
    fetched.called =>
        /\ \A row \in ReturnedRows :
              /\ IsStored(row)
              /\ StoredRecord(row).vendor_id = fetched.p_vendor_id
              /\ StoredRecord(row).status # "complete"
              /\ row.entity_type # "action_item" => StoredRecord(row).resolved_at = NULLT
        /\ \A ag \in agenda_items :
              (ag.vendor_id = fetched.p_vendor_id /\ ag.status # "complete"
                 /\ ag.resolved_at = NULLT) => LeftOutOnlyForLimit(AgendaItemRow(ag))
        /\ \A b \in blockers :
              (b.vendor_id = fetched.p_vendor_id /\ b.status # "complete"
                 /\ b.resolved_at = NULLT) => LeftOutOnlyForLimit(BlockerRow(b))
        /\ \A ai \in action_items :
              (ai.vendor_id = fetched.p_vendor_id /\ ai.status # "complete")
                 => LeftOutOnlyForLimit(ActionItemRow(ai))

\* C2 amended: the output for vendor V contains only records of V that are
\* open in that sense, an open record of V is left out only when N rows with
\* scores at least as high are returned, and the call changes no table.
C2_Amended ==
    /\ []C2_Selection
    /\ [][fetched' # fetched => UNCHANGED tables]_vars

\* a call that returned an action item whose resolution timestamp is set and
\* left out a resolved blocker, a completed record and another vendor's record
C2_Witness ==
    /\ fetched.called
    /\ \E row \in ReturnedRows :
          row.entity_type = "action_item" /\ StoredRecord(row).resolved_at # NULLT
    /\ \/ \E b \in blockers : b.resolved_at # NULLT /\ b.status # "complete"
       \/ \E ag \in agenda_items : ag.vendor_id # fetched.p_vendor_id
       \/ \E ag \in agenda_items : ag.status = "complete"

\* the scoring rule of the specification
SpecBase == [critical |-> 100, high |-> 75, medium |-> 50, low |-> 25]
SpecSeverityBonus(sev) ==
    IF sev \in {"critical", "high", "new"}
    THEN [critical |-> 50, high |-> 30, new |-> 10][sev] ELSE 0
SpecScore(priority, age_days, escalation_count, sev) ==
    SpecBase[priority] + 2 * age_days + 15 * escalation_count + SpecSeverityBonus(sev)

\* whole days from timestamp t to now
WholeDaysSince(t) ==
    CHOOSE d \in 0..(now + 1) : d * TicksPerDay <= now - t /\ now - t < (d + 1) * TicksPerDay

\* C3: the score of every returned discussion topic is base(priority) +
\* 2*age_days + 15*escalation_count + severityBonus(stored severity), age_days
\* being the whole days since first_raised_at.
C3_AgendaItemScore ==
    fetched.called =>
        \A row \in ReturnedRows :
            row.entity_type = "agenda_item" =>
                /\ row.age_days = WholeDaysSince(StoredRecord(row).first_raised_at)
                /\ row.score = SpecScore(StoredRecord(row).priority, row.age_days,
                                         StoredRecord(row).escalation_count,
                                         StoredRecord(row).severity)

\* a returned discussion topic, escalated, some days old, of severity "new"
C3_Witness ==
    /\ fetched.called
    /\ \E row \in ReturnedRows :
          /\ row.entity_type = "agenda_item"
          /\ row.severity = "new"
          /\ row.escalation_count > 0
          /\ row.age_days > 0
          /\ row.priority = "low"

\* the age band of the specification
SpecBlockerBand(age_days) ==
    IF age_days > 21 THEN "critical" ELSE IF age_days > 7 THEN "high" ELSE "new"

\* C4 as stated: every returned blocker has the severity of its age band and
\* the score base(priority) + 2*age_days + 15*escalation_count +
\* severityBonus(that severity).
C4_BlockerScore ==
    fetched.called =>
        \A row \in ReturnedRows :
            row.entity_type = "blocker" =>
                /\ row.age_days = WholeDaysSince(StoredRecord(row).first_flagged_at)
                /\ row.severity = SpecBlockerBand(row.age_days)
                /\ row.score = SpecScore(StoredRecord(row).priority, row.age_days,
                                         StoredRecord(row).escalation_count,
                                         SpecBlockerBand(row.age_days))

-----------------------------------------------------------------------------
(* Claims about the queue controller, checked under Spec *)

SameItem(a, b) == a.entity_type = b.entity_type /\ a.entity_id = b.entity_id

\* this step is handler `op` invoked on the item of row
StepOn(op, row) ==
    /\ ops' = ops + 1
    /\ lastOp'.op = op
    /\ lastOp'.entity_type = row.entity_type
    /\ lastOp'.entity_id = row.entity_id

\* this step is handler `op` invoked on an item that is not in the local list
StepOnAbsent(op) ==
    /\ ops' = ops + 1
    /\ lastOp'.op = op
    /\ \A k \in 1..Len(items) :
          ~(items[k].entity_type = lastOp'.entity_type
            /\ items[k].entity_id = lastOp'.entity_id)

\* the brackets of the specification: critical > high > medium > low
SpecBracket == [critical |-> 4, high |-> 3, medium |-> 2, low |-> 1]

\* the items next to position i are exchanged, the others stay in place
SwappedAt(i, j) ==
    /\ Len(items') = Len(items)
    /\ SameItem(items'[j], items[i])
    /\ SameItem(items'[i], items[j])
    /\ \A k \in 1..Len(items) : k \notin {i, j} => items'[k] = [items[k] EXCEPT !.rank = k]

\* C5: escalate on the item at position i > 1 exchanges it with its
\* predecessor, moves no other item, keeps the same items, and leaves the
\* ranks 1..len in list order.
C5_EscalateSwaps ==
    [][\A i \in 2..Len(items) :
          StepOn("escalate", items[i]) =>
              /\ SwappedAt(i, i - 1)
              /\ RanksAreOneToLen(items')]_vars

\* the example: escalate(A) on B, C, A has given B, A, C with ranks 1, 2, 3
C5_Witness ==
    /\ lastOp.op = "escalate" /\ lastOp.entity_id = ExampleA.id /\ lastOp.idx = 3
    /\ Len(items) = 3
    /\ [k \in 1..3 |-> items[k].title] = <<"B", "A", "C">>
    /\ [k \in 1..3 |-> items[k].rank] = <<1, 2, 3>>

\* C6: escalate on a non-first item gives it its predecessor's bracket
\* exactly when that bracket is strictly higher, and otherwise leaves its
\* priority; the priority is never lowered, never raised above the
\* predecessor's, and the predecessor's priority is unchanged.
C6_EscalatePriority ==
    [][\A i \in 2..Len(items) :
          StepOn("escalate", items[i]) =>
              \E m, n \in 1..Len(items') :
                  /\ SameItem(items'[m], items[i])
                  /\ SameItem(items'[n], items[i - 1])
                  /\ items'[m].priority =
                        IF SpecBracket[items[i - 1].priority] > SpecBracket[items[i].priority]
                        THEN items[i - 1].priority ELSE items[i].priority
                  /\ SpecBracket[items'[m].priority] >= SpecBracket[items[i].priority]
                  /\ SpecBracket[items'[m].priority] <=
                        IF SpecBracket[items[i - 1].priority] > SpecBracket[items[i].priority]
                        THEN SpecBracket[items[i - 1].priority]
                        ELSE SpecBracket[items[i].priority]
                  /\ items'[n].priority = items[i - 1].priority]_vars

\* D, stored with priority low, has been escalated past A and is now high
C6_Witness ==
    /\ lastOp.op = "escalate" /\ lastOp.entity_id = ExampleD.id /\ lastOp.idx = 4
    /\ \E k \in 1..Len(items) :
          /\ items[k].entity_id = ExampleD.id /\ items[k].priority = "high"
          /\ k < Len(items) /\ items[k + 1].entity_id = ExampleA.id
          /\ items[k + 1].priority = "high"

\* the local escalation_count of the item of row, in list a (-1: not there)
LocalCount(a, row) ==
    IF \E k \in 1..Len(a) : SameItem(a[k], row)
    THEN (CHOOSE r \in {a[k] : k \in 1..Len(a)} : SameItem(r, row)).escalation_count
    ELSE -1

\* C7: escalate on a non-first item raises that item's local
\* escalation_count by exactly 1, with or without a change of bracket, and
\* changes no other item's.
C7_EscalateCount ==
    [][\A i \in 2..Len(items) :
          StepOn("escalate", items[i]) =>
              \A k \in 1..Len(items) :
                  LocalCount(items', items[k]) =
                      IF k = i THEN items[k].escalation_count + 1
                      ELSE items[k].escalation_count]_vars

\* an escalate that changed no bracket has raised the count: C moved above B
C7_Witness ==
    /\ lastOp.op = "escalate" /\ lastOp.entity_id = ExampleC.id /\ lastOp.idx = 2
    /\ items[1].entity_id = ExampleC.id
    /\ items[1].priority = ExampleC.priority
    /\ items[1].escalation_count = ExampleC.escalation_count + 1

\* C8: escalate on the first item of the local list leaves the list as it
\* is: order, priorities, escalation counts and ranks.
C8_EscalateFirst ==
    [][(Len(items) >= 1 /\ StepOn("escalate", items[1])) => items' = items]_vars

\* escalate has been invoked on the first item
C8_Witness ==
    /\ lastOp.op = "escalate" /\ lastOp.idx = 1
    /\ Len(items) >= 2
    /\ items[1].entity_type = lastOp.entity_type
    /\ items[1].entity_id = lastOp.entity_id

\* C9: de-escalate on the last item, or on an item not in the list, leaves
\* the list as it is; otherwise it exchanges the item with its successor,
\* leaves the ranks 1..len, gives the item its successor's bracket exactly
\* when that bracket is strictly lower, never raises the item's priority
\* and leaves the successor's priority.
C9_Deescalate ==
    [][/\ (Len(items) >= 1 /\ StepOn("deescalate", items[Len(items)])) => items' = items
       /\ StepOnAbsent("deescalate") => items' = items
       /\ \A i \in 1..(Len(items) - 1) :
             StepOn("deescalate", items[i]) =>
                 /\ SwappedAt(i, i + 1)
                 /\ RanksAreOneToLen(items')
                 /\ items'[i + 1].priority =
                       IF SpecBracket[items[i + 1].priority] < SpecBracket[items[i].priority]
                       THEN items[i + 1].priority ELSE items[i].priority
                 /\ SpecBracket[items'[i + 1].priority] <= SpecBracket[items[i].priority]
                 /\ items'[i].priority = items[i + 1].priority]_vars

\* C, critical, has been de-escalated below A and is now high
C9_Witness ==
    /\ lastOp.op = "deescalate" /\ lastOp.entity_id = ExampleC.id /\ lastOp.idx = 2
    /\ Len(items) >= 3
    /\ items[3].entity_id = ExampleC.id /\ items[3].priority = "high"
    /\ items[2].entity_id = ExampleA.id /\ items[2].priority = "high"

\* de-escalate has been invoked on an item that had left the local list
C9_WitnessAbsent ==
    /\ lastOp.op = "deescalate" /\ lastOp.idx = 0

\* de-escalate has been invoked on the last item
C9_WitnessLast ==
    /\ lastOp.op = "deescalate" /\ lastOp.idx = Len(items) /\ Len(items) >= 2

\* the stored escalation counts
StoredCounts ==
    {<<"agenda_items", r.id, r.escalation_count>> : r \in agenda_items}
    \cup {<<"blockers", r.id, r.escalation_count>> : r \in blockers}
    \cup {<<"action_items", r.id, r.escalation_count>> : r \in action_items}

\* a write that de-escalate can issue: an update of priority alone
PriorityOnly(w) == w.kind = "update" /\ DOMAIN w.updates = {"priority"}

\* C10: de-escalate changes no item's escalation_count in the local list and
\* none in the store: the step itself changes no table, the only write it
\* issues updates priority alone, and such a write, when it reaches the
\* store, changes no stored escalation_count.
C10_DeescalateCount ==
    [][/\ (ops' = ops + 1 /\ lastOp'.op = "deescalate") =>
             /\ \A k \in 1..Len(items) :
                   LocalCount(items', items[k]) = items[k].escalation_count
             /\ StoredCounts' = StoredCounts
             /\ \A w \in pending' \ pending : PriorityOnly(w)
             /\ Cardinality(pending' \ pending) <= 1
       /\ \A w \in pending :
             (PriorityOnly(w) /\ pending' = pending \ {w}) => StoredCounts' = StoredCounts]_vars

\* the write of a de-escalate of C below A has reached the store: C is
\* stored with priority high and its count as before
C10_Witness ==
    /\ lastOp.op = "deescalate" /\ lastOp.entity_id = ExampleC.id
    /\ pending = {}
    /\ \E r \in agenda_items :
          /\ r.id = ExampleC.id /\ r.priority = "high"
          /\ r.escalation_count = ExampleC.escalation_count

-----------------------------------------------------------------------------
(* Claims about the asynchronous handlers, checked under Spec and SpecAll *)

\* list a without the entry of the item of row
Without(a, row) == SelectSeq(a, LAMBDA i : ~SameItem(i, row))

\* this step is the end of the suspended handler h
EndOf(h) == h \in awaiting /\ awaiting' = awaiting \ {h}

\* C11 as stated: when a resolve takes effect on the local list, the new
\* list is the list as it stood just before without the resolved item's entry:
\* the other items keep their order, priority and escalation_count, changes
\* made while the write was pending included.
C11_ResolveRemovesOne ==
    [][\A h \in awaiting :
          (h.handler = "resolve" /\ EndOf(h)) => items' = Without(items, h.item)]_vars

TableNames == {"agenda_items", "blockers", "action_items"}

TableRows(name) ==
    CASE name = "agenda_items" -> agenda_items
      [] name = "blockers" -> blockers
      [] name = "action_items" -> action_items

\* the ids the store has given out so far
GivenIds == 1 .. (nextId - 1)

\* the record `id` of table `name` is deleted, or resolved: status complete
\* and a resolution timestamp
Removed(name, id) ==
    \A r \in TableRows(name) :
        r.id = id => (r.status = "complete" /\ r.resolved_at # NULLT)

\* rows has a row for record `id` of table `name`
InOutput(rows, name, id) ==
    \E k \in 1..Len(rows) : TableOf(rows[k]) = name /\ rows[k].entity_id = id

\* the assembler, called now for any vendor, returns no removed record
NoRemovedInOutput ==
    \A name \in TableNames, id \in GivenIds :
        Removed(name, id) =>
            \A v \in Vendors : \A rows \in generate_vendor_agenda(v, PageLimit) :
                ~InOutput(rows, name, id)

\* C12: a record that is deleted or resolved stays so through every step of
\* every operation and write completion, and no assembler output, the one a
\* refresh fetches included, contains it.
C12_RemovedIsTerminal ==
    /\ []NoRemovedInOutput
    /\ [][\A name \in TableNames, id \in GivenIds :
             Removed(name, id) =>
                 /\ Removed(name, id)'
                 /\ fetched' # fetched => ~InOutput(fetched'.rows, name, id)]_vars

\* B was resolved while an edit of B was pending; the edit's write then
\* reached the resolved record, and the refresh that followed returned the
\* two other records only
C12_Witness ==
    /\ lastOp.op = "saved" /\ lastOp.entity_id = ExampleB.id
    /\ \E r \in agenda_items :
          /\ r.id = ExampleB.id /\ r.title = "E"
          /\ r.status = "complete" /\ r.resolved_at # NULLT
    /\ Len(fetched.rows) = 2
    /\ ~InOutput(fetched.rows, "agenda_items", ExampleB.id)

\* C13 as stated: through every operation and every completion of a write,
\* in any order, no record's stored escalation_count decreases.
C13_StoredCountNeverDecreases ==
    [][\A name \in TableNames :
          \A r \in TableRows(name) : \A q \in TableRows(name)' :
              q.id = r.id => q.escalation_count >= r.escalation_count]_vars

\* C14 as stated: the step that invokes resolve on an item of the local list
\* removes it from the list, before its store write completes, so that no
\* later operation finds the item there.
C14_ResolveRemovesAtOnce ==
    [][\A k \in 1..Len(items) :
          StepOn("resolve", items[k]) =>
              \A j \in 1..Len(items') : ~SameItem(items'[j], items[k])]_vars

\* C15 as stated: an escalate that leaves the local list as it is, because
\* the item is first in it or not in it, issues no write and changes no
\* stored record.
C15_NoOpEscalateWritesNothing ==
    [][((Len(items) >= 1 /\ StepOn("escalate", items[1])) \/ StepOnAbsent("escalate"))
          => (pending' = pending /\ UNCHANGED tables)]_vars

\* nothing is in flight and the last update of the list is rendered
Quiescent == awaiting = {} /\ pending = {} /\ rendered = items

\* C16 as stated: once addItem has completed successfully and nothing else
\* is in flight, the local list is the result of the fresh fetch, which has
\* the new item at its rank.
C16_AddRefreshesList ==
    (lastOp.op = "added" /\ Quiescent) =>
        /\ items = fetched.rows
        /\ \E k \in 1..Len(items) :
              items[k].entity_type = "agenda_item" /\ items[k].entity_id = nextId - 1

\* the ids of the records of a table
Ids(rows) == {r.id : r \in rows}

\* C17: the insert of an addItem, when it succeeds, adds exactly one record to
\* the discussion topics: a new one, of the page's vendor, open, of priority
\* medium, severity new and escalation_count 0, with the trimmed non-blank
\* title; it changes no existing record.  An addItem with a blank title
\* issues nothing, and invoking addItem, or an insert that fails, changes no
\* record.
C17_AddInsertsOne ==
    [][/\ \A h \in awaiting :
             (h.handler = "add" /\ EndOf(h) /\ lastOp'.op = "added") =>
                 /\ blockers' = blockers
                 /\ action_items' = action_items
                 /\ agenda_items \subseteq agenda_items'
                 /\ Cardinality(agenda_items' \ agenda_items) = 1
                 /\ \A r \in agenda_items' \ agenda_items :
                       /\ r.id \notin Ids(agenda_items) \cup Ids(blockers) \cup Ids(action_items)
                       /\ r.vendor_id = PageVendor
                       /\ r.status = "pending" /\ r.resolved_at = NULLT
                       /\ r.priority = "medium" /\ r.severity = "new"
                       /\ r.escalation_count = 0
                       /\ r.title \notin {"", " ", NULL}
       /\ (ops' = ops + 1 /\ lastOp'.op = "add") =>
             /\ UNCHANGED tables
             /\ pending' = pending
             /\ Cardinality(awaiting' \ awaiting) = lastOp'.idx
       /\ \A h \in awaiting :
             (h.handler = "add" /\ EndOf(h) /\ lastOp'.op = "add failed") =>
                 UNCHANGED tables]_vars

\* two addItem calls with the same texts have both succeeded: two new
\* records "N", with no context and no ask, next to the three loaded ones
C17_Witness ==
    /\ lastOp.op = "added"
    /\ awaiting = {}
    /\ Cardinality({r \in agenda_items : r.title = "N" /\ r.context = NULL /\ r.ask = NULL
                                          /\ r.priority = "medium"}) = 2
    /\ ExampleB \in agenda_items /\ ExampleD \in blockers /\ ExampleA \in action_items

\* the columns an edit can change, by table
EditableColumns(name) ==
    CASE name = "agenda_items" -> {"title", "priority", "context", "ask"}
      [] name = "action_items" -> {"title", "priority", "notes"}
      [] name = "blockers" -> {"title", "priority", "impact_description"}

\* rows2 is rows, but for the columns cols of record id
SameButFor(rows, rows2, id, cols) ==
    /\ Ids(rows2) = Ids(rows)
    /\ \A r \in rows : \E q \in rows2 :
          /\ q.id = r.id
          /\ \A c \in DOMAIN r : (r.id # id \/ c \notin cols) => q[c] = r[c]
    /\ Cardinality(rows2) = Cardinality(rows)

\* C18: the write of an editItem, when it returns, has changed at most the
\* record of the item's own table with the item's id, and of that record at
\* most title, priority and the free-text columns of its type, so never
\* escalation_count, status or resolved_at; invoking editItem changes no
\* record.
C18_EditWritesOneRecord ==
    [][/\ \A h \in awaiting :
             (h.handler = "edit" /\ EndOf(h)) =>
                 \A name \in TableNames :
                     IF name = TableOf(h.item)
                     THEN SameButFor(TableRows(name), TableRows(name)',
                                     h.item.entity_id, EditableColumns(name))
                     ELSE TableRows(name)' = TableRows(name)
       /\ (ops' = ops + 1 /\ lastOp'.op = "edit") => UNCHANGED tables]_vars

\* an edit of B, escalated twice, has been saved with a new priority and new
\* texts: the record has them, and its count, status and timestamp as before
C18_Witness ==
    /\ lastOp.op = "saved" /\ lastOp.entity_id = ExampleB.id
    /\ [ExampleB EXCEPT !.priority = "low", !.context = "c2", !.ask = "a2"] \in agenda_items
    /\ ExampleA \in action_items
    /\ ExampleD \in blockers

\* a field of a row is missing
Missing(x) == x = NULL \/ x = ""

\* the export's lines from line n on are the rows of list a, in its order:
\* rank, severity in upper case, title, and the placeholder for a missing
\* context, ask or owner
RowsFrom(n, a) ==
    /\ Len(clipboard) = n - 1 + Len(a)
    /\ \A k \in 1..Len(a) :
          LET line == clipboard[n - 1 + k] IN
          /\ Len(line) = 6
          /\ line[1] = ToString(a[k].rank)
          /\ line[2] = [critical |-> "CRITICAL", high |-> "HIGH", new |-> "NEW",
                        normal |-> "NORMAL"][a[k].severity]
          /\ line[3] = a[k].title
          /\ line[4] = IF Missing(a[k].context) THEN EmDash ELSE a[k].context
          /\ line[5] = IF Missing(a[k].ask) THEN EmDash ELSE a[k].ask
          /\ line[6] = IF Missing(a[k].owner_name) THEN EmDash ELSE a[k].owner_name

ColumnHeader == <<"| # | Severity | Topic | Context | Ask | Owner |">>

\* C19 as stated: an export of a list of k items writes k+1 lines, the
\* column header and then one row per item in list order, and changes
\* neither the local list nor the store.
C19_Original ==
    [][(ops' = ops + 1 /\ lastOp'.op = "export") =>
          /\ Len(clipboard') = Len(rendered) + 1
          /\ clipboard'[1] = ColumnHeader
          /\ RowsFrom(2, rendered)'
          /\ UNCHANGED <<tables, items, rendered>>]_vars

\* C19 amended: an export of a list of k items writes k+5 lines: the title,
\* the date of generation, an empty line, the column header and the table
\* separator, and then one row per item in list order, with the placeholder
\* for every missing context, ask or owner and the severity in upper case;
\* it changes neither the local list nor the store, and issues no write.
C19_Amended ==
    [][(ops' = ops + 1 /\ lastOp'.op = "export") =>
          /\ Len(clipboard') = Len(rendered) + 5
          /\ clipboard'[1][1] = "# " /\ clipboard'[1][2] = PageVendor
          /\ clipboard'[2][1] = "**Generated:** "
          /\ clipboard'[3] = <<"">>
          /\ clipboard'[4] = ColumnHeader
          /\ clipboard'[5] = <<"|---|----------|-------|---------|-----|-------|">>
          /\ RowsFrom(6, rendered)'
          /\ UNCHANGED <<tables, items, rendered, pending, awaiting>>]_vars

\* a list of two items, A without context and ask and D without ask and
\* owner, has been exported: seven lines
C19_Witness ==
    /\ lastOp.op = "export"
    /\ Len(items) = 2 /\ rendered = items
    /\ Len(clipboard) = 7
    /\ clipboard[6] = <<"2", "NORMAL", "A", EmDash, EmDash, "Pat">>
    /\ clipboard[7] = <<"3", "NEW", "D", "desc", EmDash, EmDash>>

\* the record of the item of row is in the store and open, as the
\* assembler's branch for its type takes "open"
StoredOpen(row) ==
    CASE row.entity_type = "agenda_item" ->
            \E r \in agenda_items : r.id = row.entity_id /\ AgendaItemSelected(r, PageVendor)
      [] row.entity_type = "blocker" ->
            \E r \in blockers : r.id = row.entity_id /\ BlockerSelected(r, PageVendor)
      [] row.entity_type = "action_item" ->
            \E r \in action_items : r.id = row.entity_id /\ ActionItemSelected(r, PageVendor)

\* this step issues nothing new
NothingIssued == pending' \subseteq pending /\ awaiting' \subseteq awaiting

\* C20: a write that fails is not issued again and leaves the local list as
\* it is.  When the write of an escalate or a de-escalate is lost, or the
\* write of an edit fails, the list, with the order, priorities and counts
\* the operations gave it, and the store are unchanged.  When the write of a
\* resolve or delete fails, the store is unchanged, the handler still takes
\* the item out of the local list, and the fetch of its refresh returns the
\* item again if its record is still open.
C20_FailedWrite ==
    [][/\ \A w \in pending :
             (pending' = pending \ {w} /\ UNCHANGED tables) =>
                 (items' = items /\ rendered' = rendered /\ NothingIssued)
       /\ \A h \in awaiting :
             (EndOf(h) /\ lastOp'.op = "save failed") =>
                 (items' = items /\ rendered' = rendered /\ UNCHANGED tables
                  /\ NothingIssued)
       /\ \A h \in awaiting :
             (EndOf(h) /\ lastOp'.op \in {"resolve failed", "delete failed"}) =>
                 /\ UNCHANGED tables
                 /\ NothingIssued
                 /\ \A k \in 1..Len(items') : ~SameItem(items'[k], h.item)
                 /\ StoredOpen(h.item) =>
                       InOutput(fetched'.rows, TableOf(h.item), h.item.entity_id)]_vars

\* the write of an escalate of D was lost and the write of a resolve of B
\* then failed: D is still above A in the local list, with A's priority and
\* a count of 1, B is out of the list, the records are as they were, and
\* the refresh has returned B
C20_Witness ==
    /\ lastOp.op = "resolve failed" /\ lastOp.entity_id = ExampleB.id
    /\ ExampleB \in agenda_items /\ ExampleD \in blockers
    /\ \A k \in 1..Len(items) : items[k].entity_id # ExampleB.id
    /\ Len(items) = 2
    /\ items[1].entity_id = ExampleD.id /\ items[1].priority = "high"
    /\ items[1].escalation_count = 1
    /\ InOutput(fetched.rows, "agenda_items", ExampleB.id)
    /\ pending = {} /\ awaiting = {} /\ ops = 2
    /\ ExampleA \in action_items

-----------------------------------------------------------------------------
(* Further claims about the ranking function, checked under SpecRank *)

\* today's date, in whole days
Today == WholeDaysSince(0)

\* the days a record is overdue: 0 when it has no due date or is not due yet
DaysOverdue(r) ==
    IF r.due_date # NULLT /\ r.due_date < Today THEN Today - r.due_date ELSE 0

\* the urgency bonus of the specification
SpecUrgencyBonus(r) == IF 3 * DaysOverdue(r) < 60 THEN 3 * DaysOverdue(r) ELSE 60

\* C21: the score of every returned action item is base(priority) +
\* 2*age_days + 15*escalation_count + min(3*days_overdue, 60), the last term
\* being 0 for an item that is not overdue or has no due date, and never
\* above 60.
C21_ActionItemBonus ==
    fetched.called =>
        \A row \in ReturnedRows :
            row.entity_type = "action_item" =>
                /\ row.age_days = WholeDaysSince(StoredRecord(row).first_flagged_at)
                /\ row.score = SpecBase[StoredRecord(row).priority] + 2 * row.age_days
                                + 15 * StoredRecord(row).escalation_count
                                + SpecUrgencyBonus(StoredRecord(row))
                /\ row.score - SpecBase[StoredRecord(row).priority] - 2 * row.age_days
                       - 15 * StoredRecord(row).escalation_count \in 0..60

\* a returned action item 21 days overdue: 63 capped to 60
C21_Witness ==
    /\ fetched.called
    /\ \E row \in ReturnedRows :
          /\ row.entity_type = "action_item"
          /\ DaysOverdue(StoredRecord(row)) = 21
          /\ row.score = SpecBase[row.priority] + 2 * row.age_days + 60

\* the priorities from the highest to the lowest
PriorityOrder == <<"critical", "high", "medium", "low">>

\* the scores of records that differ in priority alone fall with the priority
FallsWithPriority(Score(_), r) ==
    \A i \in 1..3 :
        Score([r EXCEPT !.priority = PriorityOrder[i]])
            > Score([r EXCEPT !.priority = PriorityOrder[i + 1]])

\* the score of a record does not fall when the record is up to a day older
RisesWithAge(Score(_), r, first) ==
    \A d \in 0..TicksPerDay : Score([r EXCEPT ![first] = @ - d]) >= Score(r)

\* C22: for every stored record of each of the three types, the score of the
\* same record with an earlier first-raised (first-flagged) time, so a
\* greater or equal age_days, is not lower, and the scores of the same record
\* with priority critical, high, medium and low are strictly decreasing; a
\* returned row's score is that score of its record.  (A fetch leaves the
\* store as it is and a record's score does not depend on the arguments of
\* the call, so the records of each store are looked at once, before the
\* fetch of the first vendor with limit 1.)
C22_ScoreMonotone ==
    /\ (~fetched.called /\ fetched.p_limit = 1 /\ fetched.p_vendor_id = PageVendor) =>
          /\ \A r \in agenda_items :
                /\ FallsWithPriority(AgendaItemScore, r)
                /\ RisesWithAge(AgendaItemScore, r, "first_raised_at")
          /\ \A r \in blockers :
                /\ FallsWithPriority(BlockerScore, r)
                /\ RisesWithAge(BlockerScore, r, "first_flagged_at")
          /\ \A r \in action_items :
                /\ FallsWithPriority(ActionItemScore, r)
                /\ RisesWithAge(ActionItemScore, r, "first_flagged_at")
    /\ fetched.called =>
          \A row \in ReturnedRows :
              row.score = CASE row.entity_type = "agenda_item" -> AgendaItemScore(StoredRecord(row))
                            [] row.entity_type = "blocker" -> BlockerScore(StoredRecord(row))
                            [] row.entity_type = "action_item" -> ActionItemScore(StoredRecord(row))

\* a returned blocker of priority high, 7 days old: at medium it would score
\* 25 less, a day older 2 more, a tick older (the same day or the next) not less
C22_Witness ==
    /\ fetched.called
    /\ \E row \in ReturnedRows :
          /\ row.entity_type = "blocker" /\ row.priority = "high" /\ row.age_days = 7
          /\ BlockerScore([StoredRecord(row) EXCEPT !.priority = "medium"]) = row.score - 25
          /\ BlockerScore([StoredRecord(row) EXCEPT !.first_flagged_at = @ - TicksPerDay])
                = row.score + 2
          /\ BlockerScore([StoredRecord(row) EXCEPT !.first_flagged_at = @ - 1]) >= row.score

-----------------------------------------------------------------------------
(* Further claims about the queue controller, checked under Spec and SpecAll *)

\* title, score and rank of the rows, in their order
Summary(rows) == [k \in 1..Len(rows) |-> <<rows[k].title, rows[k].score, rows[k].rank>>]

\* C23: whenever the page's fetch runs on a store whose only records are A
\* (high, 10 days old, never escalated), B (high, 3 days old, escalated
\* twice) and C (critical, less than a day old, never escalated), it returns
\* B with score 111 and rank 1, C with 100 and rank 2, A with 95 and rank 3.
C23_Example ==
    (/\ fetched.called
     /\ agenda_items = {ExampleB, ExampleC}
     /\ blockers = {}
     /\ action_items = {ExampleA})
        => Summary(fetched.rows) = << <<"B", 111, 1>>, <<"C", 100, 2>>, <<"A", 95, 3>> >>

\* the store holds A, B and C as loaded, and a refresh, after a resolve or
\* a delete whose write failed, has fetched them again
C23_Witness ==
    /\ lastOp.op \in {"resolve failed", "delete failed"}
    /\ agenda_items = {ExampleB, ExampleC} /\ blockers = {} /\ action_items = {ExampleA}
    /\ ExampleA.priority = "high" /\ ExampleB.priority = "high"
    /\ ExampleC.priority = "critical"
    /\ <<ExampleA.escalation_count, ExampleB.escalation_count, ExampleC.escalation_count>>
          = <<0, 2, 0>>
    /\ Summary(fetched.rows) = << <<"B", 111, 1>>, <<"C", 100, 2>>, <<"A", 95, 3>> >>
    /\ <<fetched.rows[1].age_days, fetched.rows[2].age_days, fetched.rows[3].age_days>>
          = <<3, 0, 10>>

\* the item of row has the priority and the escalation_count of its record
AsStored(row) ==
    IsStored(row) =>
        /\ row.priority = StoredRecord(row).priority
        /\ row.escalation_count = StoredRecord(row).escalation_count

\* C24 as stated: in a session in which every write succeeds, once no write
\* and no operation is in flight every item of the local list has its
\* record's priority and escalation_count.
C24_ViewConsistent ==
    Quiescent => \A k \in 1..Len(items) : AsStored(items[k])

\* C25 as stated: in every reachable local list the ranks read in list order
\* are 1, 2, ..., len and the scores read in list order never increase.
C25_RankedItemInvariant ==
    /\ RanksAreOneToLen(items)
    /\ \A i \in 1..(Len(items) - 1) : items[i].score >= items[i + 1].score

\* the write an escalate issues to carry exactly the change it made to the
\* item that was at position i
CarriesLocalChange(w, i) ==
    /\ w.kind = "update"
    /\ w.table = TableOf(items[i])
    /\ w.id = items[i].entity_id
    /\ "escalation_count" \in DOMAIN w.updates
    /\ w.updates.escalation_count = items[i].escalation_count + 1
    /\ w.updates.escalation_count = items'[i - 1].escalation_count
    /\ IF items'[i - 1].priority # items[i].priority
       THEN DOMAIN w.updates = {"escalation_count", "priority"}
            /\ w.updates.priority = items'[i - 1].priority
       ELSE DOMAIN w.updates = {"escalation_count"}

\* C26 as stated: an escalate that reorders the local list issues one write,
\* which sets the stored escalation_count to the item's new local count and
\* includes the priority exactly when the escalate changed the item's local
\* priority, with that priority.
C26_EscalateWrite ==
    [][\A i \in 2..Len(items) :
          StepOn("escalate", items[i]) =>
              /\ Cardinality(pending' \ pending) <= 1
              /\ \A w \in pending' \ pending : CarriesLocalChange(w, i)
              /\ \E w \in pending' : CarriesLocalChange(w, i)]_vars

\* the items of a list
LocalItems(a) == {<<a[k].entity_type, a[k].entity_id>> : k \in 1..Len(a)}

\* C27 as stated: an item that has left the local list, which only a resolve
\* or a delete makes it do, is in the local list in no later state.
C27_RemovedStaysRemoved ==
    [][LocalItems(items') \subseteq LocalItems(items)]_vars

\* the brackets of list a never rise from one item to the next
BracketOrdered(a) ==
    \A i \in 1..(Len(a) - 1) : SpecBracket[a[i].priority] >= SpecBracket[a[i + 1].priority]

\* C28 as stated: no step of escalate, de-escalate, resolve or delete takes
\* a local list whose brackets are ordered to one whose brackets are not.
C28_BracketOrderKept ==
    [][BracketOrdered(items) => BracketOrdered(items')]_vars

\* the rows of a list that show item
RowsOf(rows, item) == {rows[k] : k \in {j \in 1..Len(rows) : SameItem(rows[j], item)}}

\* the ask the assembler shows for item on the store as it is
AskShown(item) ==
    {r.ask : r \in UNION {RowsOf(rows, item) : rows \in generate_vendor_agenda(PageVendor, PageLimit)}}

\* the form of edit e changed the ask the row showed when the edit began
SetsAsk(item, e) == e.ask # startEdit(item).ask

\* what reading the item back after edit e has to show: the edit's context,
\* and the ask the assembler showed before unless the edit set it
ReadsBack(row, item, e) ==
    /\ row.context = OrNull(e.context)
    /\ IF SetsAsk(item, e) THEN row.ask = OrNull(e.ask) ELSE row.ask \in AskShown(item)

\* C29 as stated: when the write of an edit with context c has succeeded and
\* the list is fetched again, the row of the edited item, whatever its type,
\* shows context c, and shows the ask it showed before unless the edit set
\* the ask.
C29_EditReadBack ==
    [][\A h \in {a \in awaiting : a.handler = "edit"} : \A e \in EditChoices(h.item) :
          (h.write = SaveEditWrite(h.item, e) /\ EndOf(h) /\ lastOp'.op = "saved")
          => \A row \in RowsOf(fetched'.rows, h.item) : ReadsBack(row, h.item, e)]_vars

\* the same for the type the edit's columns are the assembler's columns of
C29_AgendaItemReadBack ==
    [][\A h \in {a \in awaiting : a.handler = "edit"} : \A e \in EditChoices(h.item) :
          (h.write = SaveEditWrite(h.item, e) /\ h.item.entity_type = "agenda_item"
             /\ EndOf(h) /\ lastOp'.op = "saved")
          => \A row \in RowsOf(fetched'.rows, h.item) : ReadsBack(row, h.item, e)]_vars

\* the rows a step adds to raid_entries
Created == raid_entries' \ raid_entries

\* two records of one organisation and type with the same display id
DuplicateLabels(r, q) ==
    /\ r.id # q.id
    /\ r.org_id = q.org_id
    /\ r.raid_type = q.raid_type
    /\ r.display_id = q.display_id

\* C30: a creation reads the number of the organisation's records of the
\* type, and its later insert labels the n accepted items count + 1, ...,
\* count + n from the count it read and stores them all, whatever has been
\* inserted since and whatever labels the table holds; so two creations
\* that overlap can store two records under one display id.
C30_CountThenInsert ==
    [][\A p \in Pages :
          LET c == confirms[p] IN
          /\ (c.step <= Len(RaidTypes) /\ ~c.counted /\ confirms'[p].counted
                /\ lastOp'.op = "counted")
             => confirms'[p].count = CountOf(c.org_id, RaidTypes[c.step])
          /\ (c.step <= Len(RaidTypes) /\ c.counted /\ ~confirms'[p].counted
                /\ lastOp'.op = "inserted")
             => /\ raid_entries \subseteq raid_entries'
                /\ Cardinality(Created) = c.accepted[RaidTypes[c.step]]
                /\ \A r \in Created :
                      r.org_id = c.org_id /\ r.raid_type = RaidTypes[c.step]
                /\ {r.display_id : r \in Created}
                     = {<<Prefix(RaidTypes[c.step]), OrZero(c.count) + k>> :
                          k \in 1..c.accepted[RaidTypes[c.step]]}]_vars

\* two pages have created records of one organisation and type under the
\* same display id, the later of them labelling from a count it did read
C30_Witness ==
    /\ lastOp.op = "inserted"
    /\ lastOp.idx # NULLT
    /\ \E r \in raid_entries, q \in raid_entries :
          /\ DuplicateLabels(r, q)
          /\ r.id[1] # q.id[1]
          /\ r.raid_type = lastOp.entity_type
          /\ r.display_id[2] > lastOp.idx

====
